---- MODULE Spec2Model ----
(***************************************************************************)
(* Model of the data reconciliation layer of sippy:                        *)
(*   A. BugLoader.Load          (pkg/dataloader/bugloader/bugloader.go)    *)
(*   B. refreshMaterializedViews / refreshMatview  (sippyserver)           *)
(*   C. JobArtifactQuery        (jobartifacts)                             *)
(* Each component has its own specification (SpecA, SpecB, SpecC); the     *)
(* variables of the other components stay at their initial values.         *)
(* SpecD runs one mapping builder of A, SpecOverlap two instances of A,    *)
(* SpecBLong runs B on a list longer than the pool, SpecCancel runs C      *)
(* with a caller that cancels the request.                                 *)
(***************************************************************************)
EXTENDS Integers, Sequences, FiniteSets, TLC

VARIABLES
    dbBugs,      \* store: bugs table with its bug_tests / bug_jobs join rows
    dbTriages,   \* store: triages table (URL, nullable bug_id)
    bl,          \* per BugLoader: position in Load, locals, bl.errors
    mv,          \* refresher: dbc, the flag, the pool size, each view's behaviour
    main,        \* refresher: position of refreshMaterializedViews
    wk,          \* refresher: each refreshMatview goroutine (position, matView)
    ch,          \* refresher: the unbuffered channel (closed or not)
    wg,          \* refresher: counter of the sync.WaitGroup
    vlog,        \* refresher: per view, what was issued, logged and observed
    aq,          \* scanner: the JobArtifactQuery, the job run row, the bucket
    qs,          \* scanner: position and locals of queryJobArtifacts
    mb           \* one mapping builder call: its rows, its position, its result

varsA == <<dbBugs, dbTriages, bl>>
varsB == <<mv, main, wk, ch, wg, vlog>>
varsC == <<aq, qs>>
varsD == <<mb>>
vars == <<dbBugs, dbTriages, bl, mv, main, wk, ch, wg, vlog, aq, qs, mb>>

----------------------------------------------------------------------------
(* Bounds of the model *)

\* rows the warehouse returns to one run, over its three queries
MaxRows == 2
\* store operations that fail in one run of Load
MaxFailures == 1
\* entries of db.PostgresMatViews
MaxViews == 2
\* maxJobFilesToScan: the cap on listed objects (its value is set in a file
\* of the package that is not part of src/; the code is parametric in it)
MaxJobFilesToScan == 2
\* objects in the bucket under one job run's prefix that match the glob
MaxObjects == 4

----------------------------------------------------------------------------
(* Component A: values *)

Loaders == {1}

\* nil *uint of Triage.BugID
NoBug == 0

\* the numeric ticket IDs strconv.Atoi can produce here
BugIDs == {1, 2}

\* values of the jira_id column: two numerals, an unparseable string, missing
JiraIDs == {"1", "2", "x", ""}

Keys == {"K1", "K2"}

\* strconv.Atoi on the jira_id column
Atoi(s) ==
    CASE s = "1" -> [ok |-> TRUE, val |-> 1]
      [] s = "2" -> [ok |-> TRUE, val |-> 2]
      [] OTHER   -> [ok |-> FALSE, val |-> 0]

\* A URL string is held as the sequence of its "/"-separated pieces:
\* "https://issues.redhat.com/browse/K1" is
\* <<"https:", "", "issues.redhat.com", "browse", "K1">>.
\* fmt.Sprintf("https://issues.redhat.com/browse/%s", key)
JiraURL(key) == <<"https:", "", "issues.redhat.com", "browse", key>>

\* strings.Split(url.Parse(u).Path, "/"): the path starts at the "/" that
\* follows the host, so the first piece is the empty string
PathSegments(u) == <<"">> \o SubSeq(u, 4, Len(u))

\* parseBugKeyFromURL
parseBugKeyFromURL(u) ==
    LET pathSegments == PathSegments(u)
        n == Len(pathSegments)
    IN  IF n < 3 \/ pathSegments[n - 1] # "browse"
        THEN [ok |-> FALSE, key |-> ""]
        ELSE [ok |-> TRUE, key |-> pathSegments[n]]

\* URLs a curated Triage can carry: two well-formed ones and one that lacks
\* the /browse/ segment
TriageURLs ==
    {JiraURL(k) : k \in Keys} \cup {<<"https:", "", "issues.redhat.com", "K1">>}

\* primary keys of the Triage rows
TriageIDs == {1}

\* TestCache / JobCache: name -> local entity, read-only during a run
TestCache == [n \in {"t1", "t2"} |-> [Name |-> n]]
JobCache == [n \in {"j1"} |-> [Name |-> n]]

\* link_name values of a row of the test query / job query: a name the cache
\* knows, one it does not know, and a missing one
TestLinkNames == {"t1", "tX", ""}
JobLinkNames == {"j1", "jX", ""}

TestRows == [JiraID : JiraIDs, Key : Keys, LinkName : TestLinkNames]
JobRows == [JiraID : JiraIDs, Key : Keys, LinkName : JobLinkNames]
\* the triage query drops the link_name column
TriageRows == [JiraID : JiraIDs, Key : Keys]

Min(S) == CHOOSE x \in S : \A y \in S : x <= y

Range(s) == {s[i] : i \in DOMAIN s}

\* the orders in which a Go map of the given key set can be ranged over
Orderings(S) ==
    {s \in [1..Cardinality(S) -> S] : \A i, j \in DOMAIN s : i # j => s[i] # s[j]}

EmptyMap == [x \in {} |-> x]

----------------------------------------------------------------------------
(* Component A: the mapping builders *)

\* a conversion that leaves the ID unset, so that the store assigns a key of
\* its own to the row
bigQueryBugToModelNoID(id, bqBug) ==
    [ID |-> id + Cardinality(BugIDs), Key |-> bqBug.Key, URL |-> JiraURL(bqBug.Key),
     Tests |-> <<>>, Jobs |-> <<>>]

\* bigQueryBugToModel: the attributes are copied; the URL is derived from the
\* key; Tests and Jobs start empty
bigQueryBugToModel(id, bqBug) ==
    [ID |-> id, Key |-> bqBug.Key, URL |-> JiraURL(bqBug.Key),
     Tests |-> <<>>, Jobs |-> <<>>]

\* a test row loop that skips an unparseable ID without recording it
TestBugRowSilent(st, bwt) ==
    LET conv == Atoi(bwt.JiraID)
    IN  IF bwt.JiraID = "" \/ bwt.LinkName = "" THEN st
        ELSE IF ~conv.ok THEN st
        ELSE IF bwt.LinkName \notin DOMAIN TestCache THEN st
        ELSE
          LET id == conv.val
              b0 == IF id \in DOMAIN st.bugs THEN st.bugs
                    ELSE st.bugs @@ (id :> bigQueryBugToModel(id, bwt))
          IN  [st EXCEPT !.bugs =
                  [b0 EXCEPT ![id].Tests = Append(@, TestCache[bwt.LinkName].Name)]]

\* a test row loop that puts the matched test in front of the list
TestBugRowPrepend(st, bwt) ==
    LET conv == Atoi(bwt.JiraID)
    IN  IF bwt.JiraID = "" \/ bwt.LinkName = "" THEN st
        ELSE IF ~conv.ok
        THEN [st EXCEPT !.errors = Append(@, "failed to convert jira id")]
        ELSE IF bwt.LinkName \notin DOMAIN TestCache THEN st
        ELSE
          LET id == conv.val
              b0 == IF id \in DOMAIN st.bugs THEN st.bugs
                    ELSE st.bugs @@ (id :> bigQueryBugToModel(id, bwt))
          IN  [st EXCEPT !.bugs =
                  [b0 EXCEPT ![id].Tests = <<TestCache[bwt.LinkName].Name>> \o @]]

\* one iteration of the row loop of getTestBugMappings; st holds the map
\* built so far and the errors recorded so far
TestBugRow(st, bwt) ==
    LET conv == Atoi(bwt.JiraID)
    IN  IF bwt.JiraID = "" \/ bwt.LinkName = "" THEN st
        ELSE IF ~conv.ok
        THEN [st EXCEPT !.errors = Append(@, "failed to convert jira id")]
        ELSE IF bwt.LinkName \notin DOMAIN TestCache THEN st
        ELSE
          LET id == conv.val
              b0 == IF id \in DOMAIN st.bugs THEN st.bugs
                    ELSE st.bugs @@ (id :> bigQueryBugToModel(id, bwt))
          IN  [st EXCEPT !.bugs =
                  [b0 EXCEPT ![id].Tests = Append(@, TestCache[bwt.LinkName].Name)]]

\* one iteration of the row loop of getJobBugMappings
JobBugRow(st, bwj) ==
    LET conv == Atoi(bwj.JiraID)
    IN  IF bwj.JiraID = "" \/ bwj.LinkName = "" THEN st
        ELSE IF ~conv.ok
        THEN [st EXCEPT !.errors = Append(@, "failed to convert jira id")]
        ELSE IF bwj.LinkName \notin DOMAIN JobCache THEN st
        ELSE
          LET id == conv.val
              b0 == IF id \in DOMAIN st.bugs THEN st.bugs
                    ELSE st.bugs @@ (id :> bigQueryBugToModel(id, bwj))
          IN  [st EXCEPT !.bugs =
                  [b0 EXCEPT ![id].Jobs = Append(@, JobCache[bwj.LinkName].Name)]]

\* one iteration of the row loop of getTriageBugMappings
TriageBugRow(st, bwt) ==
    LET conv == Atoi(bwt.JiraID)
    IN  IF bwt.JiraID = "" THEN st
        ELSE IF ~conv.ok
        THEN [st EXCEPT !.errors = Append(@, "failed to convert jira id")]
        ELSE
          LET id == conv.val
          IN  IF id \in DOMAIN st.bugs THEN st
              ELSE [st EXCEPT !.bugs = st.bugs @@ (id :> bigQueryBugToModel(id, bwt))]

\* the key extraction loop of getTriageBugMappings: the keys of all triages,
\* or a failure at the first URL that does not parse
jiraKeys(triages) ==
    IF \E i \in DOMAIN triages : ~parseBugKeyFromURL(triages[i].URL).ok
    THEN [ok |-> FALSE, keys |-> {}]
    ELSE [ok |-> TRUE, keys |-> {parseBugKeyFromURL(triages[i].URL).key : i \in DOMAIN triages}]

----------------------------------------------------------------------------
(* Component A: the merge step of Load *)

\* a merge that treats the job records as it treats the triage records:
\* inserted only when absent
MergeJobBugsIfAbsent(all, jobBugs) ==
    [id \in DOMAIN all \cup DOMAIN jobBugs |->
        IF id \in DOMAIN all THEN all[id] ELSE jobBugs[id]]

\* for _, b := range jobBugs: a ticket already present keeps its record and
\* gets the job record's Jobs; an absent one is inserted
MergeJobBugs(all, jobBugs) ==
    [id \in DOMAIN all \cup DOMAIN jobBugs |->
        IF id \in DOMAIN all
        THEN IF id \in DOMAIN jobBugs
             THEN [all[id] EXCEPT !.Jobs = jobBugs[id].Jobs]
             ELSE all[id]
        ELSE jobBugs[id]]

\* a triage pass that overwrites the records it meets
MergeTriageBugsOverwrite(all, triageBugs) ==
    [id \in DOMAIN all \cup DOMAIN triageBugs |->
        IF id \in DOMAIN triageBugs THEN triageBugs[id] ELSE all[id]]

\* for _, b := range triageBugs: inserted only when absent
MergeTriageBugs(all, triageBugs) ==
    [id \in DOMAIN all \cup DOMAIN triageBugs |->
        IF id \in DOMAIN all THEN all[id] ELSE triageBugs[id]]

MergeBugs(testBugs, jobBugs, triageBugs) ==
    MergeTriageBugs(MergeJobBugs(testBugs, jobBugs), triageBugs)

----------------------------------------------------------------------------
(* Component A: the store operations Load issues *)

\* Clauses(OnConflict{UpdateAll: true}).Create(bug): insert, or update all
\* columns of the row with this primary key; the join rows are left to the
\* explicit Replace calls that follow
UpsertBug(bugs, bug) ==
    IF bug.ID \in DOMAIN bugs
    THEN [bugs EXCEPT ![bug.ID] = [@ EXCEPT !.Key = bug.Key, !.URL = bug.URL]]
    ELSE bugs @@ (bug.ID :> [Key |-> bug.Key, URL |-> bug.URL, Tests |-> {}, Jobs |-> {}])

\* Model(bug).Association("Tests").Replace(bug.Tests)
ReplaceTests(bugs, bug) == [bugs EXCEPT ![bug.ID].Tests = Range(bug.Tests)]

\* Model(bug).Association("Jobs").Replace(bug.Jobs)
ReplaceJobs(bugs, bug) == [bugs EXCEPT ![bug.ID].Jobs = Range(bug.Jobs)]

\* a delete that removes the expected rows and keeps the others
RowsKeptNotExpected(bugs, expectedBugIDs) == DOMAIN bugs \ Range(expectedBugIDs)

\* Where("id not in ?", expectedBugIDs).Unscoped().Delete(&models.Bug{}):
\* the rows that survive.  For an empty slice the statement reads
\* "id not in (NULL)", which is true of no row, so nothing is deleted.
RowsKept(bugs, expectedBugIDs) ==
    IF expectedBugIDs = <<>> THEN DOMAIN bugs
    ELSE DOMAIN bugs \cap Range(expectedBugIDs)

DeleteNotIn(bugs, expectedBugIDs) ==
    [id \in RowsKept(bugs, expectedBugIDs) |-> bugs[id]]

\* the bug_id of a Triage is a nullable foreign key: it is cleared when the
\* row it references is deleted
ClearDangling(triages, bugs) ==
    [t \in DOMAIN triages |->
        IF triages[t].BugID \in DOMAIN bugs THEN triages[t]
        ELSE [triages[t] EXCEPT !.BugID = NoBug]]

\* Where("url = ?", t.URL).First(&bug): the IDs of the rows that match
BugsByURL(bugs, u) == {id \in DOMAIN bugs : bugs[id].URL = u}

\* query.ListTriages: every Triage with its Bug preloaded, as read now
ListTriages(triages, bugs) ==
    LET ids == DOMAIN triages
        order == CHOOSE s \in Orderings(ids) : \A i, j \in DOMAIN s : i < j => s[i] < s[j]
    IN  [i \in 1..Cardinality(ids) |->
            LET t == triages[order[i]]
            IN  [ID |-> order[i], URL |-> t.URL, BugID |-> t.BugID,
                 BugURL |-> IF t.BugID \in DOMAIN bugs THEN bugs[t.BugID].URL ELSE <<>>]]

\* the condition under which the repair loop leaves a Triage alone
LinkedProperly(t) == t.BugID # NoBug /\ t.URL = t.BugURL

----------------------------------------------------------------------------
(* Component A: Load, step by step *)

NewLoader ==
    [pc |-> "idle",
     testBugs |-> EmptyMap, jobBugs |-> EmptyMap, triageBugs |-> EmptyMap,
     triages |-> <<>>,
     allBugs |-> EmptyMap, dbExpectedBugs |-> <<>>,
     expectedBugIDs |-> <<>>, errors |-> <<>>,
     \* rows the warehouse can still return to this run
     rowsLeft |-> MaxRows,
     \* history: the store when the run started, what each upsert met, whether
     \* the delete ran, how many store operations failed, whether the run
     \* repeats the inputs of the previous one, the errors of the three fetches
     preBugs |-> EmptyMap, preTriages |-> EmptyMap, outcome |-> EmptyMap,
     upserts |-> <<>>, deleted |-> FALSE,
     failures |-> 0, rerun |-> FALSE, fetchErrors |-> <<>>,
     \* history: a mapping builder failed; the triages table when the repair
     \* loop started
     fatal |-> FALSE, atRepair |-> EmptyMap,
     \* history: another run was under way at some time during this run; no
     \* run started after this one
     overlapped |-> FALSE, latest |-> FALSE]

\* join rows of a stored ticket when a run starts: an earlier run found it
\* mentioning the test and the job the caches know
StoredAssociations == {[Tests |-> {"t1"}, Jobs |-> {"j1"}]}

\* the bugs table when a run starts: rows written by earlier runs, so every
\* URL is the one derived from the key
StoredBugs ==
    UNION {[ids -> [Key : Keys, Assoc : StoredAssociations]] : ids \in SUBSET BugIDs}

\* the triages table when a run starts: rows curated by users, linked to a
\* stored ticket or to none
StoredTriages(bugIDs) ==
    UNION {[ids -> [URL : TriageURLs, BugID : {NoBug} \cup bugIDs]] : ids \in SUBSET TriageIDs}

InitA ==
    /\ \E sb \in StoredBugs :
         /\ dbBugs = [id \in DOMAIN sb |->
                         [Key |-> sb[id].Key, URL |-> JiraURL(sb[id].Key),
                          Tests |-> sb[id].Assoc.Tests, Jobs |-> sb[id].Assoc.Jobs]]
         /\ dbTriages \in StoredTriages(DOMAIN sb)
    /\ bl = [p \in Loaders |-> NewLoader]

Idle == \A p \in Loaders : bl[p].pc = "idle"

\* store operations that may still fail in this run
FailuresLeft(p) == IF bl[p].rerun THEN 0 ELSE MaxFailures - bl[p].failures

\* a run that swallows the builder's error and goes on with the next step
AfterFatalContinue(pc) ==
    CASE pc = "fetchTests" -> "fetchJobs"
      [] pc = "fetchJobs"  -> "listTriages"
      [] OTHER             -> "merge"

\* lines 100-103, 112-115, 126-129: panic(err) when a mapping builder fails
AfterFatal(pc) == "panicked"

\* what is left of a run that ended before it wrote: its error list
Ended(p, pc, errs) ==
    [NewLoader EXCEPT !.pc = pc, !.errors = errs,
                      !.preBugs = bl[p].preBugs, !.preTriages = bl[p].preTriages]

\* Load is entered on a fresh BugLoader (bl.errors empty)
StartLoad(p) ==
    /\ Idle
    /\ bl' = [bl EXCEPT ![p] = [NewLoader EXCEPT !.pc = "fetchTests",
                                   !.preBugs = dbBugs, !.preTriages = dbTriages]]
    /\ UNCHANGED <<dbBugs, dbTriages>>
    /\ UNCHANGED <<varsB, varsC, varsD>>

\* query.LoadTestCache / LoadProwJobCache / ListTriages returns an error:
\* the error is recorded and Load returns
CacheLoadFails(p) ==
    /\ bl[p].pc \in {"fetchTests", "fetchJobs", "listTriages"}
    /\ ~bl[p].rerun
    /\ bl' = [bl EXCEPT ![p] = Ended(p, "returned", Append(bl[p].errors, "cache load failed"))]
    /\ UNCHANGED <<dbBugs, dbTriages>>
    /\ UNCHANGED <<varsB, varsC, varsD>>

\* the loader after one of its mapping builders returned an error
Abort(p) ==
    LET to == AfterFatal(bl[p].pc)
    IN  IF to = "panicked"
        THEN [Ended(p, "panicked", bl[p].errors) EXCEPT !.fatal = TRUE]
        ELSE [bl[p] EXCEPT !.pc = to, !.fatal = TRUE]

\* q.Read or it.Next fails in one of the three mapping builders
FetchFails(p) ==
    /\ bl[p].pc \in {"fetchTests", "fetchJobs", "fetchTriages"}
    /\ bl' = [bl EXCEPT ![p] = Abort(p)]
    /\ UNCHANGED <<dbBugs, dbTriages>>
    /\ UNCHANGED <<varsB, varsC, varsD>>

\* getTestBugMappings: it.Next yields a row
FetchTestRow(p) ==
    /\ bl[p].pc = "fetchTests"
    /\ bl[p].rowsLeft > 0
    /\ \E bwt \in TestRows :
         LET st == TestBugRow([bugs |-> bl[p].testBugs, errors |-> bl[p].errors], bwt)
         IN  bl' = [bl EXCEPT ![p].rowsLeft = @ - 1,
                              ![p].testBugs = st.bugs,
                              ![p].errors = st.errors]
    /\ UNCHANGED <<dbBugs, dbTriages>>
    /\ UNCHANGED <<varsB, varsC, varsD>>

\* getTestBugMappings: iterator.Done
FetchTestBugs(p) ==
    /\ bl[p].pc = "fetchTests"
    /\ bl' = [bl EXCEPT ![p].pc = "fetchJobs"]
    /\ UNCHANGED <<dbBugs, dbTriages>>
    /\ UNCHANGED <<varsB, varsC, varsD>>

\* getJobBugMappings: it.Next yields a row
FetchJobRow(p) ==
    /\ bl[p].pc = "fetchJobs"
    /\ bl[p].rowsLeft > 0
    /\ \E bwj \in JobRows :
         LET st == JobBugRow([bugs |-> bl[p].jobBugs, errors |-> bl[p].errors], bwj)
         IN  bl' = [bl EXCEPT ![p].rowsLeft = @ - 1,
                              ![p].jobBugs = st.bugs,
                              ![p].errors = st.errors]
    /\ UNCHANGED <<dbBugs, dbTriages>>
    /\ UNCHANGED <<varsB, varsC, varsD>>

\* getJobBugMappings: iterator.Done
FetchJobBugs(p) ==
    /\ bl[p].pc = "fetchJobs"
    /\ bl' = [bl EXCEPT ![p].pc = "listTriages"]
    /\ UNCHANGED <<dbBugs, dbTriages>>
    /\ UNCHANGED <<varsB, varsC, varsD>>

\* query.ListTriages.  A run that repeats the inputs of the previous one gets
\* the triage mapping set the previous one got: the Triage URLs are the same,
\* so the query and its rows are
LoadTriages(p) ==
    /\ bl[p].pc = "listTriages"
    /\ bl' = [bl EXCEPT ![p].pc = IF bl[p].rerun THEN "merge" ELSE "fetchTriages",
                        ![p].triages = ListTriages(dbTriages, dbBugs)]
    /\ UNCHANGED <<dbBugs, dbTriages>>
    /\ UNCHANGED <<varsB, varsC, varsD>>

\* getTriageBugMappings: a URL that does not parse is returned as an error
TriageURLFails(p) ==
    /\ bl[p].pc = "fetchTriages"
    /\ ~jiraKeys(bl[p].triages).ok
    /\ bl' = [bl EXCEPT ![p] = Abort(p)]
    /\ UNCHANGED <<dbBugs, dbTriages>>
    /\ UNCHANGED <<varsB, varsC, varsD>>

\* getTriageBugMappings: it.Next yields a row; the query asks for exactly the
\* keys parsed from the Triage URLs
FetchTriageRow(p) ==
    /\ bl[p].pc = "fetchTriages"
    /\ jiraKeys(bl[p].triages).ok
    /\ bl[p].rowsLeft > 0
    /\ \E bwt \in {r \in TriageRows : r.Key \in jiraKeys(bl[p].triages).keys} :
         LET st == TriageBugRow([bugs |-> bl[p].triageBugs, errors |-> bl[p].errors], bwt)
         IN  bl' = [bl EXCEPT ![p].rowsLeft = @ - 1,
                              ![p].triageBugs = st.bugs,
                              ![p].errors = st.errors]
    /\ UNCHANGED <<dbBugs, dbTriages>>
    /\ UNCHANGED <<varsB, varsC, varsD>>

\* getTriageBugMappings: iterator.Done
FetchTriageBugs(p) ==
    /\ bl[p].pc = "fetchTriages"
    /\ jiraKeys(bl[p].triages).ok
    /\ bl' = [bl EXCEPT ![p].pc = "merge", ![p].rowsLeft = 0,
                        ![p].fetchErrors = bl[p].errors]
    /\ UNCHANGED <<dbBugs, dbTriages>>
    /\ UNCHANGED <<varsB, varsC, varsD>>

\* lines 132-151: merge, then range over the merged map in some order
Merge(p) ==
    /\ bl[p].pc = "merge"
    /\ LET all == MergeBugs(bl[p].testBugs, bl[p].jobBugs, bl[p].triageBugs)
       IN  \E order \in Orderings(DOMAIN all) :
             bl' = [bl EXCEPT ![p].pc = "persist",
                              ![p].allBugs = all,
                              ![p].dbExpectedBugs = order]
    /\ UNCHANGED <<dbBugs, dbTriages>>
    /\ UNCHANGED <<varsB, varsC, varsD>>

\* what one iteration of the loop at lines 155-181 can meet
PersistOutcomes == {"ok", "createFails", "testsFail", "jobsFail"}

\* the store after one iteration: a failed upsert changes nothing; a failed
\* Replace leaves the join rows it did not reach as they were
PersistResult(bugs, bug, oc) ==
    CASE oc = "createFails" -> bugs
      [] oc = "testsFail"   -> UpsertBug(bugs, bug)
      [] oc = "jobsFail"    -> ReplaceTests(UpsertBug(bugs, bug), bug)
      [] OTHER              -> ReplaceJobs(ReplaceTests(UpsertBug(bugs, bug), bug), bug)

\* what the iteration appends to bl.errors: errors.Wrap(res.Error, ...), and
\* in the two association branches res.Error is the nil of the upsert
PersistError(oc) ==
    CASE oc = "createFails" -> <<"error creating bug">>
      [] oc = "testsFail"   -> <<"nil">>
      [] oc = "jobsFail"    -> <<"nil">>
      [] OTHER              -> <<>>

\* a loop that expects only the tickets whose upsert succeeded
ExpectedIfCreated(ids, bug, oc) == IF oc = "createFails" THEN ids ELSE Append(ids, bug.ID)

\* line 156: the ID is appended to expectedBugIDs before the upsert is
\* attempted, whatever its outcome
ExpectedAfter(ids, bug, oc) == Append(ids, bug.ID)

\* a loop that stops at the first failed upsert
PersistNextBreak(i, oc, n) == IF oc = "createFails" THEN n + 1 ELSE i + 1

\* where the loop goes after an iteration: every branch is a continue
PersistNext(i, oc, n) == i + 1

\* the loop at lines 155-181 from position i on; oc gives each record's outcome
RECURSIVE PersistLoop(_, _, _, _, _)
PersistLoop(st, all, order, oc, i) ==
    IF i > Len(order) THEN st
    ELSE
      LET bug == all[order[i]]
          st1 == [bugs |-> PersistResult(st.bugs, bug, oc[order[i]]),
                  expectedBugIDs |-> ExpectedAfter(st.expectedBugIDs, bug, oc[order[i]]),
                  errors |-> st.errors \o PersistError(oc[order[i]]),
                  upserts |-> Append(st.upserts, bug.ID)]
      IN  PersistLoop(st1, all, order, oc, PersistNext(i, oc[order[i]], Len(order)))

NumFailed(oc) == Cardinality({x \in DOMAIN oc : oc[x] # "ok"})

Persist(p) ==
    /\ bl[p].pc = "persist"
    /\ \E oc \in [DOMAIN bl[p].allBugs -> PersistOutcomes] :
         /\ NumFailed(oc) <= FailuresLeft(p)
         /\ LET st == PersistLoop([bugs |-> dbBugs, expectedBugIDs |-> <<>>,
                                   errors |-> bl[p].errors, upserts |-> <<>>],
                                  bl[p].allBugs, bl[p].dbExpectedBugs, oc, 1)
            IN  /\ dbBugs' = st.bugs
                /\ bl' = [bl EXCEPT ![p].pc = "delete",
                                    ![p].expectedBugIDs = st.expectedBugIDs,
                                    ![p].errors = st.errors,
                                    ![p].outcome = oc,
                                    ![p].upserts = st.upserts,
                                    ![p].failures = @ + NumFailed(oc)]
    /\ UNCHANGED dbTriages
    /\ UNCHANGED <<varsB, varsC, varsD>>

\* lines 184-190
DeleteStale(p) ==
    /\ bl[p].pc = "delete"
    /\ \/ /\ dbBugs' = DeleteNotIn(dbBugs, bl[p].expectedBugIDs)
          /\ dbTriages' = ClearDangling(dbTriages, dbBugs')
          /\ bl' = [bl EXCEPT ![p].pc = "repair", ![p].deleted = TRUE,
                              ![p].atRepair = dbTriages']
       \/ /\ FailuresLeft(p) > 0
          /\ bl' = [bl EXCEPT ![p].pc = "repair",
                              ![p].errors = Append(@, "error deleting stale bugs"),
                              ![p].failures = @ + 1,
                              ![p].atRepair = dbTriages]
          /\ UNCHANGED <<dbBugs, dbTriages>>
    /\ UNCHANGED <<varsB, varsC, varsD>>

\* what one iteration of the loop at lines 196-219 can meet
RepairOutcomes == {"ok", "lookupFails", "saveFails"}

\* one iteration of the loop at lines 196-219 for the Triage t as listed
RepairOne(st, t, oc) ==
    LET found == BugsByURL(st.bugs, t.URL)
    IN  IF LinkedProperly(t) THEN st
        ELSE IF found = {} \/ oc = "lookupFails" THEN st
        ELSE IF oc = "saveFails"
        THEN [st EXCEPT !.errors = Append(@, "error linking bug")]
        ELSE [st EXCEPT !.triages =
                 [x \in DOMAIN st.triages \cup {t.ID} |->
                     IF x = t.ID THEN [URL |-> t.URL, BugID |-> Min(found)]
                     ELSE st.triages[x]]]

\* the iteration ran into the failure its outcome names
RepairFailed(bugs, t, oc) ==
    /\ ~LinkedProperly(t)
    /\ BugsByURL(bugs, t.URL) # {}
    /\ oc # "ok"

RECURSIVE RepairLoop(_, _, _, _)
RepairLoop(st, triages, oc, i) ==
    IF i > Len(triages) THEN st
    ELSE RepairLoop(RepairOne(st, triages[i], oc[i]), triages, oc, i + 1)

Repair(p) ==
    /\ bl[p].pc = "repair"
    /\ \E oc \in [DOMAIN bl[p].triages -> RepairOutcomes] :
         LET nfail == Cardinality({i \in DOMAIN oc : RepairFailed(dbBugs, bl[p].triages[i], oc[i])})
             st == RepairLoop([bugs |-> dbBugs, triages |-> dbTriages, errors |-> bl[p].errors],
                              bl[p].triages, oc, 1)
         IN  /\ \A i \in DOMAIN oc : oc[i] # "ok" => RepairFailed(dbBugs, bl[p].triages[i], oc[i])
             /\ nfail <= FailuresLeft(p)
             /\ dbTriages' = st.triages
             /\ bl' = [bl EXCEPT ![p].pc = "done",
                                 ![p].errors = st.errors,
                                 ![p].failures = @ + nfail]
    /\ UNCHANGED dbBugs
    /\ UNCHANGED <<varsB, varsC, varsD>>

\* Load is run again on a fresh BugLoader while the warehouse, the caches and
\* the Triage URLs are as in the run that just completed without a failure:
\* the three builders return what they returned, and no store operation fails
\* in this run either
Rerun(p) ==
    /\ bl[p].pc = "done"
    /\ ~bl[p].rerun
    /\ bl[p].failures = 0
    /\ bl' = [bl EXCEPT ![p] = [NewLoader EXCEPT
                 !.pc = "listTriages", !.rerun = TRUE, !.rowsLeft = 0,
                 !.testBugs = bl[p].testBugs, !.jobBugs = bl[p].jobBugs,
                 !.triageBugs = bl[p].triageBugs,
                 !.errors = bl[p].fetchErrors, !.fetchErrors = bl[p].fetchErrors,
                 !.preBugs = dbBugs, !.preTriages = dbTriages]]
    /\ UNCHANGED <<dbBugs, dbTriages>>
    /\ UNCHANGED <<varsB, varsC, varsD>>

NextA ==
    \E p \in Loaders :
       \/ StartLoad(p) \/ CacheLoadFails(p) \/ FetchFails(p)
       \/ FetchTestRow(p) \/ FetchTestBugs(p)
       \/ FetchJobRow(p) \/ FetchJobBugs(p)
       \/ LoadTriages(p) \/ TriageURLFails(p)
       \/ FetchTriageRow(p) \/ FetchTriageBugs(p)
       \/ Merge(p) \/ Persist(p) \/ DeleteStale(p) \/ Repair(p)
       \/ Rerun(p)

----------------------------------------------------------------------------
(* Component A: two BugLoader instances on the same store *)

\* two processes that each call Load once; nothing in Load keeps them apart
OverlapLoaders == {1, 2}

\* the rows the test query returns to a run here: at most one well-formed
\* row per ticket
OverlapRows ==
    LET row(j) == [JiraID |-> j, Key |-> "K1", LinkName |-> "t1"]
    IN  {<<>>, <<row("1")>>, <<row("2")>>, <<row("1"), row("2")>>}

\* the row loop of getTestBugMappings over the rows from position i on
RECURSIVE TestBugRowsFrom(_, _, _)
TestBugRowsFrom(st, rows, i) ==
    IF i > Len(rows) THEN st
    ELSE TestBugRowsFrom(TestBugRow(st, rows[i]), rows, i + 1)

\* no ticket stored yet or some, and no Triage; no Load has been called
InitOverlap ==
    /\ \E sb \in StoredBugs :
         dbBugs = [id \in DOMAIN sb |->
                      [Key |-> sb[id].Key, URL |-> JiraURL(sb[id].Key),
                       Tests |-> sb[id].Assoc.Tests, Jobs |-> sb[id].Assoc.Jobs]]
    /\ dbTriages = EmptyMap
    /\ bl = [p \in OverlapLoaders |-> NewLoader]

\* the run of p is under way
Active(p) == bl[p].pc \notin {"idle", "done", "returned", "panicked"}

\* lines 91-129 of a run of p, whatever the other process does: the caches
\* load, the test query returns its rows, the job query returns none, the
\* triages are listed and their query returns no row
LoadOverlapping(p) ==
    /\ bl[p].pc = "idle"
    /\ jiraKeys(ListTriages(dbTriages, dbBugs)).ok
    /\ \E rows \in OverlapRows :
         LET st == TestBugRowsFrom([bugs |-> EmptyMap, errors |-> <<>>], rows, 1)
             others == {q \in DOMAIN bl \ {p} : Active(q)}
         IN  bl' = [q \in DOMAIN bl |->
                      IF q = p
                      THEN [NewLoader EXCEPT !.pc = "merge", !.rowsLeft = 0,
                                             !.testBugs = st.bugs,
                                             !.errors = st.errors,
                                             !.fetchErrors = st.errors,
                                             !.triages = ListTriages(dbTriages, dbBugs),
                                             !.preBugs = dbBugs, !.preTriages = dbTriages,
                                             !.overlapped = others # {},
                                             !.latest = TRUE]
                      ELSE [bl[q] EXCEPT !.overlapped = @ \/ Active(q),
                                         !.latest = FALSE]]
    /\ UNCHANGED <<dbBugs, dbTriages>>
    /\ UNCHANGED <<varsB, varsC, varsD>>

NextOverlap ==
    \E p \in OverlapLoaders :
       \/ LoadOverlapping(p)
       \/ Merge(p) \/ Persist(p) \/ DeleteStale(p) \/ Repair(p)

----------------------------------------------------------------------------
(* Component B: refreshMaterializedViews and its refreshMatview workers *)

\* the loop bound "t < 2" of one server version and "t < 3" of the other
PoolSizeV1 == 2
PoolSizeV2 == 3
PoolSizes == {PoolSizeV1, PoolSizeV2}

Workers == 1..PoolSizeV2

\* how the database answers for one view: the row-count probe, the
\* REFRESH ... CONCURRENTLY statement, the plain REFRESH statement
ViewBehaviours ==
    [count : {"error", "zero", "positive"}, conc : {"ok", "fails"}, block : {"ok", "fails"}]

NewViewLog ==
    [taken |-> <<>>,     \* workers that received the name from the channel
     probes |-> 0,       \* SELECT COUNT(*) statements issued
     conc |-> <<>>,      \* workers that issued REFRESH ... CONCURRENTLY
     block |-> <<>>,     \* workers that issued the plain REFRESH
     skipped |-> 0,      \* "skipping matview refresh" logged
     observed |-> 0,     \* matViewRefreshMetric observations
     errors |-> 0,       \* messages logged at error level
     finished |-> 0]     \* loop iterations completed for this view

\* an answer nobody asks for is left at its first value: the row count when
\* no probe runs, the plain refresh when the concurrent one succeeds
Asked(b, flag) ==
    /\ (~flag => b.count = "zero")
    /\ (b.conc = "ok" => b.block = "ok")

InitB ==
    /\ \E n \in 0..MaxViews :
         \E bh \in [1..n -> ViewBehaviours], dbc \in BOOLEAN, flag \in BOOLEAN,
            pool \in PoolSizes :
           /\ \A v \in 1..n : Asked(bh[v], flag)
           /\ (~dbc => ~flag /\ pool = PoolSizeV1)
           /\ mv = [dbc |-> dbc, refreshMatviewOnlyIfEmpty |-> flag, pool |-> pool,
                    views |-> bh]
           /\ vlog = [v \in 1..n |-> NewViewLog]
    /\ main = [pc |-> "start", t |-> 0, next |-> 1, allObserved |-> 0]
    /\ wk = [w \in Workers |-> [pc |-> "unstarted", matView |-> 0]]
    /\ ch = "open"
    /\ wg = 0

\* a list that can be longer than either pool; its views all answer alike
InitBLong ==
    /\ \E n \in 0..(MaxViews + 2) :
         \E b \in ViewBehaviours, dbc \in BOOLEAN, flag \in BOOLEAN, pool \in PoolSizes :
           /\ Asked(b, flag)
           /\ (~dbc => ~flag /\ pool = PoolSizeV1)
           /\ mv = [dbc |-> dbc, refreshMatviewOnlyIfEmpty |-> flag, pool |-> pool,
                    views |-> [v \in 1..n |-> b]]
           /\ vlog = [v \in 1..n |-> NewViewLog]
    /\ main = [pc |-> "start", t |-> 0, next |-> 1, allObserved |-> 0]
    /\ wk = [w \in Workers |-> [pc |-> "unstarted", matView |-> 0]]
    /\ ch = "open"
    /\ wg = 0

NumViews == Len(mv.views)

\* lines 138-141: without a db connection the function returns at once
NoDB ==
    /\ main.pc = "start"
    /\ ~mv.dbc
    /\ main' = [main EXCEPT !.pc = "returned"]
    /\ UNCHANGED <<mv, wk, ch, wg, vlog>>
    /\ UNCHANGED <<varsA, varsC, varsD>>

HasDB ==
    /\ main.pc = "start"
    /\ mv.dbc
    /\ main' = [main EXCEPT !.pc = "spawn"]
    /\ UNCHANGED <<mv, wk, ch, wg, vlog>>
    /\ UNCHANGED <<varsA, varsC, varsD>>

\* a loop that registers only its first worker with the wait group
WaitGroupAddFirstOnly(t) == IF t = 0 THEN 1 ELSE 0

\* wg.Add(1) of iteration t
WaitGroupAdd(t) == 1

\* a loop that starts one worker more than the pool size
SpawnsOneMore(t, pool) == t <= pool

\* the loop condition "t < 2" (line 148), "t < 3" in the other version
SpawnsMore(t, pool) == t < pool

\* one iteration of the loop at lines 148-151: wg.Add(1); go refreshMatview
Spawn ==
    /\ main.pc = "spawn"
    /\ SpawnsMore(main.t, mv.pool)
    /\ wg' = wg + WaitGroupAdd(main.t)
    /\ wk' = [wk EXCEPT ![main.t + 1].pc = "recv"]
    /\ main' = [main EXCEPT !.t = @ + 1]
    /\ UNCHANGED <<mv, ch, vlog>>
    /\ UNCHANGED <<varsA, varsC, varsD>>

SpawnDone ==
    /\ main.pc = "spawn"
    /\ ~SpawnsMore(main.t, mv.pool)
    /\ main' = [main EXCEPT !.pc = "send"]
    /\ UNCHANGED <<mv, wk, ch, wg, vlog>>
    /\ UNCHANGED <<varsA, varsC, varsD>>

\* what a worker does after it received a view name
AfterRecv == IF mv.refreshMatviewOnlyIfEmpty THEN "probe" ELSE "concurrent"

\* a producer that leaves out the name after each one it sends
AfterSendSkip(next) == next + 2

\* lines 153-155: the range loop moves to the next element of the list
AfterSend(next) == next + 1

\* ch <- pmv.Name meets "for matView := range ch" of worker w: the channel is
\* unbuffered, so the send completes exactly when a worker receives
Handoff(w) ==
    /\ main.pc = "send"
    /\ main.next <= NumViews
    /\ wk[w].pc = "recv"
    /\ wk' = [wk EXCEPT ![w] = [pc |-> AfterRecv, matView |-> main.next]]
    /\ vlog' = [vlog EXCEPT ![main.next].taken = Append(@, w)]
    /\ main' = [main EXCEPT !.next = AfterSend(@)]
    /\ UNCHANGED <<mv, ch, wg>>
    /\ UNCHANGED <<varsA, varsC, varsD>>

\* line 157: close(ch) after the last send
Close ==
    /\ main.pc = "send"
    /\ main.next > NumViews
    /\ ch' = "closed"
    /\ main' = [main EXCEPT !.pc = "wait"]
    /\ UNCHANGED <<mv, wk, wg, vlog>>
    /\ UNCHANGED <<varsA, varsC, varsD>>

\* line 158: wg.Wait() returns when the counter is zero; then the aggregate
\* metric is observed and the function returns
Wait ==
    /\ main.pc = "wait"
    /\ wg = 0
    /\ main' = [main EXCEPT !.pc = "returned", !.allObserved = @ + 1]
    /\ UNCHANGED <<mv, wk, ch, wg, vlog>>
    /\ UNCHANGED <<varsA, varsC, varsD>>

\* a worker that leaves without signalling the wait group
WaitGroupDoneMissing(n) == n

\* line 214: wg.Done() takes one off the counter
WaitGroupDone(n) == n - 1

\* the range loop ends on the closed channel; wg.Done()
WorkerExit(w) ==
    /\ wk[w].pc = "recv"
    /\ ch = "closed"
    /\ wk' = [wk EXCEPT ![w].pc = "exited"]
    /\ wg' = WaitGroupDone(wg)
    /\ UNCHANGED <<mv, main, ch, vlog>>
    /\ UNCHANGED <<varsA, varsC, varsD>>

\* a probe that fails closed: a failed count skips the view
ProbeFailClosed(count) == IF count = "zero" THEN "concurrent" ELSE "recv"

\* lines 180-189: the row-count probe.  Where it leads: a failed probe and an
\* empty view go on to the refresh; a populated view is skipped
ProbeLeadsTo(count) == IF count = "positive" THEN "recv" ELSE "concurrent"

Probe(w) ==
    /\ wk[w].pc = "probe"
    /\ LET v == wk[w].matView
           to == ProbeLeadsTo(mv.views[v].count)
       IN  /\ wk' = [wk EXCEPT ![w].pc = to]
           /\ vlog' = [vlog EXCEPT ![v].probes = @ + 1,
                                   ![v].skipped = IF to = "recv" THEN @ + 1 ELSE @,
                                   ![v].finished = IF to = "recv" THEN @ + 1 ELSE @]
    /\ UNCHANGED <<mv, main, ch, wg>>
    /\ UNCHANGED <<varsA, varsC, varsD>>

\* a worker that reports the failed concurrent refresh at error level
ConcurrentErrorsLogged(conc) == IF conc = "fails" THEN 1 ELSE 0

\* line 197: the failure of the concurrent refresh is logged with Warn; the
\* number of error-level messages it adds
ConcurrentErrors(conc) == 0

\* a worker that runs the plain refresh after every concurrent one
ConcurrentThenBlocking(conc) == "blocking"

\* a worker that gives the view up when the concurrent refresh fails
ConcurrentNoFallback(conc) == "recv"

\* lines 195-196 and 208-212: REFRESH MATERIALIZED VIEW CONCURRENTLY.  Where
\* it leads: on an error to the fallback, else the metric is observed
ConcurrentLeadsTo(conc) == IF conc = "fails" THEN "blocking" ELSE "recv"

RefreshConcurrently(w) ==
    /\ wk[w].pc = "concurrent"
    /\ LET v == wk[w].matView
           to == ConcurrentLeadsTo(mv.views[v].conc)
       IN  /\ wk' = [wk EXCEPT ![w].pc = to]
           /\ vlog' = [vlog EXCEPT ![v].conc = Append(@, w),
                                   ![v].errors = @ + ConcurrentErrors(mv.views[v].conc),
                                   ![v].observed = IF to = "recv" THEN @ + 1 ELSE @,
                                   ![v].finished = IF to = "recv" THEN @ + 1 ELSE @]
    /\ UNCHANGED <<mv, main, ch, wg>>
    /\ UNCHANGED <<varsA, varsC, varsD>>

\* the worker that runs the fallback statement of worker w
FallbackWorker(w) == w

\* lines 199-206: the plain REFRESH MATERIALIZED VIEW of the same view; an
\* error is logged, a success observes the metric
RefreshBlocking(w) ==
    /\ wk[w].pc = "blocking"
    /\ LET v == wk[w].matView
           ok == mv.views[v].block = "ok"
       IN  /\ wk' = [wk EXCEPT ![w].pc = "recv"]
           /\ vlog' = [vlog EXCEPT ![v].block = Append(@, FallbackWorker(w)),
                                   ![v].observed = IF ok THEN @ + 1 ELSE @,
                                   ![v].errors = IF ok THEN @ ELSE @ + 1,
                                   ![v].finished = @ + 1]
    /\ UNCHANGED <<mv, main, ch, wg>>
    /\ UNCHANGED <<varsA, varsC, varsD>>

NextB ==
    \/ NoDB \/ HasDB \/ Spawn \/ SpawnDone \/ Close \/ Wait
    \/ \E w \in Workers :
         \/ Handoff(w) \/ WorkerExit(w) \/ Probe(w)
         \/ RefreshConcurrently(w) \/ RefreshBlocking(w)

----------------------------------------------------------------------------
(* Component C: JobArtifactQuery *)

\* util.GcsBucketRoot
GcsBucketRoot == "test-platform-results"

\* the job run looked up; strconv.FormatInt renders it in decimal
JobRunID == 42
FormatInt(n) == IF n = 42 THEN "42" ELSE "?"

\* URL column of the job run row, as "/"-separated pieces; "missing" stands
\* for a job run that First() does not find
StoredURLs ==
    {<<"missing">>,
     <<>>,
     <<"https:", "", "prow.ci", "view", "gs", "other-bucket", "logs", "job", "42">>,
     <<"https:", "", "prow.ci", "view", "gs", GcsBucketRoot>>,
     <<"https:", "", "prow.ci", "view", "gs", GcsBucketRoot, "logs", "job", "42">>,
     <<"https:", "", "prow.ci", "view", "gs", GcsBucketRoot, "logs", "job", "42", "">>}

\* strings.Index(url, "/" + GcsBucketRoot + "/"): the first piece that is the
\* bucket root, has a piece before it and one after it; 0 when there is none
MarkerAt(url) ==
    LET hits == {i \in 2..(Len(url) - 1) : url[i] = GcsBucketRoot}
    IN  IF hits = {} THEN 0 ELSE Min(hits)

\* strings.HasSuffix(path, "/")
HasSlashSuffix(path) == Len(path) >= 2 /\ path[Len(path)] = ""

\* a lookup that slices the URL even when the marker is absent
getJobRunUnchecked(url) ==
    IF url = <<"missing">> THEN [err |-> "record not found", jobRunPath |-> <<>>]
    ELSE IF url = <<>> THEN [err |-> "has no URL", jobRunPath |-> <<>>]
    ELSE LET path == SubSeq(url, MarkerAt(url) + 1, Len(url))
         IN  [err |-> "",
              jobRunPath |-> IF HasSlashSuffix(path) THEN path ELSE path \o <<"">>]

\* getJobRun: the object prefix, or an error
getJobRun(url) ==
    IF url = <<"missing">> THEN [err |-> "record not found", jobRunPath |-> <<>>]
    ELSE IF url = <<>> THEN [err |-> "has no URL", jobRunPath |-> <<>>]
    ELSE IF MarkerAt(url) = 0
    THEN [err |-> "does not include bucket root", jobRunPath |-> <<>>]
    ELSE LET path == SubSeq(url, MarkerAt(url) + 1, Len(url))
         IN  [err |-> "",
              jobRunPath |-> IF HasSlashSuffix(path) THEN path ELSE path \o <<"">>]

\* fmt.Sprintf(artifactURLFmt, util.GcsBucketRoot, filePath)
ArtifactURL(filePath) ==
    <<"https:", "", "gcsweb-ci.apps.ci.l2s4.p1.openshiftapps.com", "gcs", GcsBucketRoot>>
        \o filePath

\* the name of the k-th object the iterator yields under the prefix
ObjectName(jobRunPath, k) == SubSeq(jobRunPath, 1, Len(jobRunPath) - 1) \o <<"artifacts", k>>

\* what GetMatches can return: a payload (none, partial, complete) and an error
MatcherResults == [matches : {"", "partial", "complete"}, err : {"", "scan failed"}]

\* a limit test that stops the listing one path short of the limit
ScanLimitNear(files) == Len(files) + 1 >= MaxJobFilesToScan

\* a limit test that lets one more path in
ScanLimitExceeded(files) == Len(files) > MaxJobFilesToScan

\* the test at line 99 that stops the listing
ScanLimitReached(files) == Len(files) >= MaxJobFilesToScan

\* a scan that drops the matches when the matcher reports an error
getFileContentMatchesOrError(jobRunID, filePath, matcher, open, res) ==
    LET artifact == [JobRunID |-> FormatInt(jobRunID), ArtifactURL |-> ArtifactURL(filePath),
                     MatchedContent |-> "", Error |-> ""]
    IN  IF ~matcher THEN artifact
        ELSE IF ~open THEN [artifact EXCEPT !.Error = "open failed"]
        ELSE IF res.err # "" THEN [artifact EXCEPT !.Error = res.err]
        ELSE [artifact EXCEPT !.MatchedContent = res.matches]

\* a scan that hands the reader to the matcher without looking at the error
\* of NewReader
getFileContentMatchesOpenUnchecked(jobRunID, filePath, matcher, open, res) ==
    LET artifact == [JobRunID |-> FormatInt(jobRunID), ArtifactURL |-> ArtifactURL(filePath),
                     MatchedContent |-> "", Error |-> ""]
    IN  IF ~matcher THEN artifact
        ELSE [artifact EXCEPT !.Error = res.err, !.MatchedContent = res.matches]

\* a scan that opens the object before it looks at the matcher
getFileContentMatchesOpensFirst(jobRunID, filePath, matcher, open, res) ==
    LET artifact == [JobRunID |-> FormatInt(jobRunID), ArtifactURL |-> ArtifactURL(filePath),
                     MatchedContent |-> "", Error |-> ""]
    IN  IF ~open THEN [artifact EXCEPT !.Error = "open failed"]
        ELSE IF ~matcher THEN artifact
        ELSE [artifact EXCEPT !.Error = res.err, !.MatchedContent = res.matches]

\* getFileContentMatches for one file: open says whether NewReader succeeds,
\* res is what the matcher returns when it is invoked
getFileContentMatches(jobRunID, filePath, matcher, open, res) ==
    LET artifact == [JobRunID |-> FormatInt(jobRunID), ArtifactURL |-> ArtifactURL(filePath),
                     MatchedContent |-> "", Error |-> ""]
    IN  IF ~matcher THEN artifact
        ELSE IF ~open THEN [artifact EXCEPT !.Error = "open failed"]
        ELSE [artifact EXCEPT !.Error = res.err, !.MatchedContent = res.matches]

\* line 81: the listing runs under context.WithTimeout(context.Background(),
\* 30s), which the request context does not reach; whether it is done by a
\* cancellation of the request
ListingContextDone(ctxDone) == FALSE

\* line 116: NewReader(context.Background()); whether that context is done by
\* a cancellation of the request
ReaderContextDone(ctxDone) == FALSE

InitC ==
    /\ \E url \in StoredURLs, matcher \in BOOLEAN, n \in 0..MaxObjects :
         \E errAt \in 0..(n + 1) :
           \* objects: how many the listing holds; errAt: the call of
           \* iter.Next that fails (0: none fails)
           aq = [url |-> url, ContentMatcher |-> matcher, objects |-> n, errAt |-> errAt]
    /\ qs = [pc |-> "getJobRun", jobRunPath |-> <<>>, calls |-> 0, files |-> <<>>,
             truncated |-> FALSE, err |-> "", listed |-> FALSE,
             artifacts |-> <<>>, results |-> <<>>, matcherCalls |-> 0, opens |-> 0,
             ctxDone |-> FALSE, atCancel |-> [files |-> 0, matcherCalls |-> 0]]

\* queryJobArtifacts, lines 34-38
GetJobRun ==
    /\ qs.pc = "getJobRun"
    /\ LET r == getJobRun(aq.url)
       IN  qs' = [qs EXCEPT !.pc = IF r.err # "" THEN "returned" ELSE "list",
                            !.err = r.err, !.jobRunPath = r.jobRunPath]
    /\ UNCHANGED aq
    /\ UNCHANGED <<varsA, varsB, varsD>>

\* one iteration of the loop of getJobRunFiles, lines 91-104
ListNext ==
    /\ qs.pc = "list"
    /\ LET call == qs.calls + 1
       IN  IF call = aq.errAt \/ ListingContextDone(qs.ctxDone)
           THEN \* iter.Next fails: return nil, false, err
                qs' = [qs EXCEPT !.pc = "returned", !.calls = call, !.files = <<>>,
                                 !.truncated = FALSE, !.err = "listing failed"]
           ELSE IF call > aq.objects
           THEN \* iterator.Done
                qs' = [qs EXCEPT !.pc = "scan", !.calls = call, !.listed = TRUE]
           ELSE IF ScanLimitReached(qs.files)
           THEN qs' = [qs EXCEPT !.pc = "scan", !.calls = call, !.truncated = TRUE,
                                 !.listed = TRUE]
           ELSE qs' = [qs EXCEPT !.calls = call,
                                 !.files = Append(@, ObjectName(qs.jobRunPath, call))]
    /\ UNCHANGED aq
    /\ UNCHANGED <<varsA, varsB, varsD>>

\* mgr.QueryJobRunArtifacts: getFileContentMatches for the next listed path
ScanFile ==
    /\ qs.pc = "scan"
    /\ Len(qs.artifacts) < Len(qs.files)
    /\ \E canOpen \in BOOLEAN, res \in MatcherResults :
         LET filePath == qs.files[Len(qs.artifacts) + 1]
             \* NewReader fails on a context that is done
             open == canOpen /\ ~ReaderContextDone(qs.ctxDone)
         IN  qs' = [qs EXCEPT
                 !.artifacts = Append(@, getFileContentMatches(JobRunID, filePath,
                                             aq.ContentMatcher, open, res)),
                 \* history: what NewReader and GetMatches answered for this file
                 !.results = Append(@, [open |-> open, res |-> res]),
                 !.opens = IF aq.ContentMatcher THEN @ + 1 ELSE @,
                 !.matcherCalls = IF aq.ContentMatcher /\ open THEN @ + 1 ELSE @]
    /\ UNCHANGED aq
    /\ UNCHANGED <<varsA, varsB, varsD>>

\* queryJobArtifacts, lines 45-47
ReturnArtifacts ==
    /\ qs.pc = "scan"
    /\ Len(qs.artifacts) = Len(qs.files)
    /\ qs' = [qs EXCEPT !.pc = "returned"]
    /\ UNCHANGED aq
    /\ UNCHANGED <<varsA, varsB, varsD>>

NextC == GetJobRun \/ ListNext \/ ScanFile \/ ReturnArtifacts

\* the caller cancels the ctx given to queryJobArtifacts while the listing or
\* the scan is under way; atCancel keeps what had been listed and read by then
CancelRequest ==
    /\ qs.pc \in {"list", "scan"}
    /\ ~qs.ctxDone
    /\ qs' = [qs EXCEPT !.ctxDone = TRUE,
                        !.atCancel = [files |-> Len(qs.files),
                                      matcherCalls |-> qs.matcherCalls]]
    /\ UNCHANGED aq
    /\ UNCHANGED <<varsA, varsB, varsD>>

NextCancel == GetJobRun \/ ListNext \/ ScanFile \/ ReturnArtifacts \/ CancelRequest

----------------------------------------------------------------------------
(* Component D: one call of a mapping builder, row by row *)

\* the three builders: getTestBugMappings, getJobBugMappings,
\* getTriageBugMappings
Builders == {"test", "job", "triage"}

\* the rows the query of a builder can return
BuilderRows(kind) ==
    CASE kind = "test" -> [JiraID : JiraIDs, Key : Keys, LinkName : DOMAIN TestCache \cup TestLinkNames]
      [] kind = "job"  -> JobRows
      [] OTHER         -> TriageRows

\* one iteration of the row loop of the builder
BuilderRow(kind, st, row) ==
    CASE kind = "test" -> TestBugRow(st, row)
      [] kind = "job"  -> JobBugRow(st, row)
      [] OTHER         -> TriageBugRow(st, row)

\* the builder is entered with an empty map; bl.errors holds what the loader
\* recorded before.  hist[k + 1] is the map and the error list after k rows
NewBuilder(kind) ==
    [kind |-> kind, pc |-> "rows", rows |-> <<>>, failed |-> FALSE,
     hist |-> <<[bugs |-> EmptyMap, errors |-> <<>>]>>]

InitD == \E kind \in Builders : mb = NewBuilder(kind)

\* it.Next yields a row and the loop body runs on it
BuilderNextRow ==
    /\ mb.pc = "rows"
    /\ Len(mb.rows) < MaxRows
    /\ \E row \in BuilderRows(mb.kind) :
         mb' = [mb EXCEPT !.rows = Append(@, row),
                          !.hist = Append(@, BuilderRow(mb.kind, mb.hist[Len(mb.hist)], row))]
    /\ UNCHANGED <<varsA, varsB, varsC>>

\* it.Next returns iterator.Done: the builder returns its map
BuilderDone ==
    /\ mb.pc = "rows"
    /\ mb' = [mb EXCEPT !.pc = "returned"]
    /\ UNCHANGED <<varsA, varsB, varsC>>

\* it.Next returns another error: the builder returns nil and the error
BuilderFails ==
    /\ mb.pc = "rows"
    /\ mb' = [mb EXCEPT !.pc = "returned", !.failed = TRUE]
    /\ UNCHANGED <<varsA, varsB, varsC>>

NextD == BuilderNextRow \/ BuilderDone \/ BuilderFails

----------------------------------------------------------------------------
(* The specifications: one component runs, the others rest *)

RestA ==
    /\ dbBugs = EmptyMap
    /\ dbTriages = EmptyMap
    /\ bl = [p \in Loaders |-> NewLoader]

RestB ==
    /\ mv = [dbc |-> FALSE, refreshMatviewOnlyIfEmpty |-> FALSE, pool |-> PoolSizeV1,
             views |-> <<>>]
    /\ vlog = <<>>
    /\ main = [pc |-> "start", t |-> 0, next |-> 1, allObserved |-> 0]
    /\ wk = [w \in Workers |-> [pc |-> "unstarted", matView |-> 0]]
    /\ ch = "open"
    /\ wg = 0

RestC ==
    /\ aq = [url |-> <<>>, ContentMatcher |-> FALSE, objects |-> 0, errAt |-> 0]
    /\ qs = [pc |-> "getJobRun", jobRunPath |-> <<>>, calls |-> 0, files |-> <<>>,
             truncated |-> FALSE, err |-> "", listed |-> FALSE,
             artifacts |-> <<>>, results |-> <<>>, matcherCalls |-> 0, opens |-> 0,
             ctxDone |-> FALSE, atCancel |-> [files |-> 0, matcherCalls |-> 0]]

RestD == mb = NewBuilder("test")

InitSpecA == InitA /\ RestB /\ RestC /\ RestD
InitSpecB == RestA /\ InitB /\ RestC /\ RestD
InitSpecC == RestA /\ RestB /\ InitC /\ RestD
InitSpecD == RestA /\ RestB /\ RestC /\ InitD

SpecA == InitSpecA /\ [][NextA]_vars

InitSpecOverlap == InitOverlap /\ RestB /\ RestC /\ RestD
SpecOverlap == InitSpecOverlap /\ [][NextOverlap]_vars

SpecB == InitSpecB /\ [][NextB]_vars

\* the Go scheduler runs every goroutine that can take a step, and every
\* database statement returns
SpecBFair == SpecB /\ WF_vars(NextB)

InitSpecBLong == RestA /\ InitBLong /\ RestC /\ RestD
SpecBLong == InitSpecBLong /\ [][NextB]_vars
SpecBLongFair == SpecBLong /\ WF_vars(NextB)

SpecC == InitSpecC /\ [][NextC]_vars

SpecCancel == InitSpecC /\ [][NextCancel]_vars

SpecD == InitSpecD /\ [][NextD]_vars

----------------------------------------------------------------------------
(* Properties of BugLoader.Load *)

\* the merge step of loader p is behind it
Merged(p) == bl[p].pc \in {"persist", "delete", "repair", "done"}

\* the persist loop of loader p is behind it
Persisted(p) == bl[p].pc \in {"delete", "repair", "done"}

\* the IDs of the three mapping sets of the run
MappedIDs(p) == DOMAIN bl[p].testBugs \cup DOMAIN bl[p].jobBugs \cup DOMAIN bl[p].triageBugs

\* C1: after the merge step, every ticket ID present in both the test-mapping
\* set and the job-mapping set has, in the merged set, the Jobs list of the
\* job-mapping record and the Tests list of the test-mapping record
C1_MergePrecedence ==
    \A p \in Loaders :
        Merged(p) =>
            \A id \in DOMAIN bl[p].testBugs \cap DOMAIN bl[p].jobBugs :
                /\ bl[p].allBugs[id].Jobs = bl[p].jobBugs[id].Jobs
                /\ bl[p].allBugs[id].Tests = bl[p].testBugs[id].Tests

C1_Witness ==
    \E p \in Loaders :
        /\ bl[p].pc = "persist"
        /\ \E id \in DOMAIN bl[p].testBugs \cap DOMAIN bl[p].jobBugs :
              /\ bl[p].allBugs[id].Jobs = <<"j1">>
              /\ bl[p].allBugs[id].Tests = <<"t1">>

\* the record of id after the test and job passes of the merge, for an id of
\* the test-mapping or job-mapping set
BeforeTriagePass(p, id) ==
    IF id \in DOMAIN bl[p].testBugs
    THEN [bl[p].testBugs[id] EXCEPT
             !.Jobs = IF id \in DOMAIN bl[p].jobBugs THEN bl[p].jobBugs[id].Jobs ELSE @]
    ELSE bl[p].jobBugs[id]

\* C13: after the merge step, every ID of the test-mapping or job-mapping set
\* has the record the test and job passes gave it, whatever the
\* triage-mapping set holds for that ID; every other ID of the
\* triage-mapping set has the triage record, and the merged set has no
\* further ID
C13_TriagePassFrame ==
    \A p \in Loaders :
        Merged(p) =>
            /\ DOMAIN bl[p].allBugs = MappedIDs(p)
            /\ \A id \in DOMAIN bl[p].testBugs \cup DOMAIN bl[p].jobBugs :
                  bl[p].allBugs[id] = BeforeTriagePass(p, id)
            /\ \A id \in DOMAIN bl[p].triageBugs \ (DOMAIN bl[p].testBugs \cup DOMAIN bl[p].jobBugs) :
                  bl[p].allBugs[id] = bl[p].triageBugs[id]

C13_Witness ==
    \E p \in Loaders :
        /\ bl[p].pc = "persist"
        /\ \E id \in DOMAIN bl[p].triageBugs \cap DOMAIN bl[p].testBugs :
              /\ bl[p].triageBugs[id].Key # bl[p].testBugs[id].Key
              /\ bl[p].allBugs[id] = bl[p].testBugs[id]

\* the IDs of the merged set whose upsert went through
Upserted(p) == {id \in DOMAIN bl[p].allBugs : bl[p].outcome[id] # "createFails"}

\* C14: when the persist loop of a run is over, whatever rows the store held
\* before, every record of the merged set carries its external ID as its ID,
\* the row of every upserted record is the row with that primary key and has
\* the record's key and URL, and the store holds no row besides the rows it
\* held and the rows of the upserted IDs: an ID that had a row still has one
C14_OneRowPerID ==
    \A p \in Loaders :
        bl[p].pc = "delete" =>
            /\ \A id \in DOMAIN bl[p].allBugs : bl[p].allBugs[id].ID = id
            /\ DOMAIN dbBugs = DOMAIN bl[p].preBugs \cup Upserted(p)
            /\ \A id \in Upserted(p) :
                  /\ dbBugs[id].Key = bl[p].allBugs[id].Key
                  /\ dbBugs[id].URL = bl[p].allBugs[id].URL

C14_Witness ==
    \E p \in Loaders :
        /\ bl[p].pc = "delete"
        /\ \E id \in Upserted(p) \cap DOMAIN bl[p].preBugs :
              /\ bl[p].preBugs[id].Key # bl[p].allBugs[id].Key
              /\ dbBugs[id].Key = bl[p].allBugs[id].Key
              /\ DOMAIN dbBugs = DOMAIN bl[p].preBugs

\* C2 as written: once the delete of a run has been issued without an error,
\* every ticket row that was in the store when the run started and whose ID
\* is in none of the three mapping sets of the run is absent from the store,
\* whatever the merged set, an empty one included
C2_Original ==
    \A p \in Loaders :
        (bl[p].pc \in {"repair", "done"} /\ bl[p].deleted) =>
            \A id \in DOMAIN bl[p].preBugs \ MappedIDs(p) : id \notin DOMAIN dbBugs

\* the run that refutes C2: the merged set is empty, the delete ran without
\* an error, and the rows the store held are all still there
C2_Witness ==
    \E p \in Loaders :
        /\ bl[p].pc = "done"
        /\ ~bl[p].rerun
        /\ bl[p].deleted
        /\ MappedIDs(p) = {}
        /\ bl[p].preBugs # EmptyMap
        /\ dbBugs = bl[p].preBugs

\* C3 as written: a second run of Load with the warehouse results, the caches
\* and the Triage URLs of the first, and with no failing store operation in
\* either, ends with the store it started with
C3_Original ==
    \A p \in Loaders :
        (bl[p].pc = "done" /\ bl[p].rerun) =>
            /\ dbBugs = bl[p].preBugs
            /\ dbTriages = bl[p].preTriages

\* the second run that refutes C3: the first run left a Triage linked to a
\* ticket whose URL it had just changed, and the second run moves the link to
\* another ticket; no row is deleted in between
C3_Witness ==
    \E p \in Loaders :
        /\ bl[p].pc = "done"
        /\ bl[p].rerun
        /\ dbBugs = bl[p].preBugs
        /\ \E t \in DOMAIN dbTriages :
              /\ bl[p].preTriages[t].BugID \in DOMAIN dbBugs
              /\ dbTriages[t].BugID \in DOMAIN dbBugs
              /\ dbTriages[t].BugID # bl[p].preTriages[t].BugID

\* the Triage row tr is linked to a ticket of bugs whose URL is not its own
Mismatched(tr, bugs) ==
    /\ tr.BugID \in DOMAIN bugs
    /\ bugs[tr.BugID].URL # tr.URL

\* C4 as written: when a run in which no store operation failed is complete,
\* every Triage that was linked to a ticket with another URL when the repair
\* loop started is linked to a ticket with its URL, or to none
C4_Original ==
    \A p \in Loaders :
        (bl[p].pc = "done" /\ bl[p].failures = 0) =>
            \A t \in DOMAIN bl[p].atRepair :
                Mismatched(bl[p].atRepair[t], dbBugs) => ~Mismatched(dbTriages[t], dbBugs)

\* the run that refutes C4: the Triage is linked to a ticket of the merged
\* set, no ticket has the Triage's URL, and the Triage ends the run linked to
\* the ticket it was linked to
C4_Witness ==
    \E p \in Loaders :
        /\ bl[p].pc = "done"
        /\ bl[p].failures = 0
        /\ \E t \in DOMAIN bl[p].atRepair :
              /\ Mismatched(bl[p].atRepair[t], dbBugs)
              /\ bl[p].atRepair[t].BugID \in MappedIDs(p)
              /\ BugsByURL(dbBugs, dbTriages[t].URL) = {}
              /\ dbTriages[t] = bl[p].atRepair[t]

\* the Triage row tr is linked to no ticket, or to one whose URL is not its own
Misaligned(tr, bugs) == tr.BugID = NoBug \/ Mismatched(tr, bugs)

\* C23 as written: when a run is complete, every Triage that was unlinked or
\* linked to a ticket with another URL when the repair loop started, and
\* whose URL a ticket of the store carries, is linked to a ticket with that
\* URL; every Triage that was linked to a ticket with its URL is as it was
C23_Original ==
    \A p \in Loaders :
        bl[p].pc = "done" =>
            \A t \in DOMAIN bl[p].atRepair :
                LET tr == bl[p].atRepair[t]
                IN  /\ (Misaligned(tr, dbBugs) /\ BugsByURL(dbBugs, tr.URL) # {}) =>
                          dbTriages[t].BugID \in BugsByURL(dbBugs, tr.URL)
                    /\ ~Misaligned(tr, dbBugs) => dbTriages[t] = tr

\* the run that refutes C23: no store operation failed and no ticket was
\* deleted; the upserts gave the linked ticket another URL and the Triage's
\* URL to another ticket, and the Triage ends the run as it was
C23_Witness ==
    \E p \in Loaders :
        /\ bl[p].pc = "done"
        /\ ~bl[p].rerun
        /\ bl[p].failures = 0
        /\ DOMAIN bl[p].preBugs \subseteq DOMAIN dbBugs
        /\ \E t \in DOMAIN bl[p].atRepair :
              /\ ~Mismatched(bl[p].preTriages[t], bl[p].preBugs)
              /\ Mismatched(bl[p].atRepair[t], dbBugs)
              /\ BugsByURL(dbBugs, bl[p].atRepair[t].URL) # {}
              /\ dbTriages[t] = bl[p].atRepair[t]

\* C9: a run in which a mapping builder failed (query, row iteration or a
\* Triage URL without /browse/<key>) has panicked at that point, and the
\* store is as it was when the run started
C9_FatalAborts ==
    \A p \in Loaders :
        bl[p].fatal =>
            /\ bl[p].pc = "panicked"
            /\ dbBugs = bl[p].preBugs
            /\ dbTriages = bl[p].preTriages

C9_Witness ==
    \E p \in Loaders :
        /\ bl[p].fatal
        /\ bl[p].pc = "panicked"
        /\ dbBugs # EmptyMap
        /\ \E t \in DOMAIN dbTriages : dbTriages[t].BugID # NoBug

\* how often e occurs in the sequence errs
Count(errs, e) == Cardinality({i \in DOMAIN errs : errs[i] = e})

\* the row of ticket id in bugs, or "none"
RowOf(bugs, id) == IF id \in DOMAIN bugs THEN bugs[id] ELSE "none"

\* C10: after the persist loop, an upsert was attempted for every record of
\* the merged set, each failed upsert left one error in the error list, and
\* the row and the Test and Job join rows of a ticket whose upsert failed are
\* as they were when the run started
C10_UpsertFailure ==
    \A p \in Loaders :
        Persisted(p) =>
            /\ Range(bl[p].upserts) = DOMAIN bl[p].allBugs
            /\ Len(bl[p].upserts) = Cardinality(DOMAIN bl[p].allBugs)
            /\ Count(bl[p].errors, "error creating bug")
                 = Cardinality({id \in DOMAIN bl[p].outcome : bl[p].outcome[id] = "createFails"})
            /\ \A id \in DOMAIN bl[p].outcome :
                  (bl[p].pc = "delete" /\ bl[p].outcome[id] = "createFails") =>
                      RowOf(dbBugs, id) = RowOf(bl[p].preBugs, id)

C10_Witness ==
    \E p \in Loaders :
        /\ bl[p].pc = "delete"
        /\ Len(bl[p].upserts) = 2
        /\ bl[p].outcome[bl[p].upserts[1]] = "createFails"
        /\ bl[p].upserts[1] \in DOMAIN bl[p].preBugs
        /\ bl[p].allBugs[bl[p].upserts[1]].Jobs = <<>>
        /\ dbBugs[bl[p].upserts[1]].Jobs = {"j1"}
        /\ Count(bl[p].errors, "error creating bug") = 1

\* the run of p is complete, none of its upserts and replacements failed and
\* its delete ran without an error
WroteAll(p) ==
    /\ bl[p].pc = "done"
    /\ \A id \in DOMAIN bl[p].outcome : bl[p].outcome[id] = "ok"
    /\ bl[p].deleted

\* C25 as written: after a run whose upserts, replacements and delete all
\* succeeded, the ticket IDs of the store are exactly the IDs of the three
\* mapping sets of the run
C25_Original ==
    \A p \in Loaders :
        WroteAll(p) => DOMAIN dbBugs = MappedIDs(p)

\* the run that refutes C25: the three mapping sets are empty, every store
\* operation succeeded, and the store still holds two tickets
C25_Witness ==
    \E p \in Loaders :
        /\ WroteAll(p)
        /\ bl[p].failures = 0
        /\ MappedIDs(p) = {}
        /\ DOMAIN dbBugs = BugIDs

\* the delete of the run of p has been issued without an error
Collected(p) == bl[p].pc \in {"repair", "done"} /\ bl[p].deleted

\* C26: after the persist loop the expected-ID list holds the ID of every
\* record of the merged set, whatever its iteration met; after the delete of
\* the run every ticket of the merged set that the store held when the run
\* started is still in the store
C26_ExpectedSurvive ==
    \A p \in Loaders :
        /\ Persisted(p) => Range(bl[p].expectedBugIDs) = DOMAIN bl[p].allBugs
        /\ Collected(p) =>
              \A id \in DOMAIN bl[p].allBugs \cap DOMAIN bl[p].preBugs : id \in DOMAIN dbBugs

\* the upsert of a ticket of the merged set failed, the delete removed a row
\* outside the set, and the row the store held for the failed ticket is still
\* there as it was
C26_Witness ==
    \E p \in Loaders : \E id \in DOMAIN bl[p].allBugs :
        /\ Collected(p)
        /\ bl[p].outcome[id] = "createFails"
        /\ id \in DOMAIN bl[p].preBugs
        /\ RowOf(dbBugs, id) = bl[p].preBugs[id]
        /\ DOMAIN bl[p].preBugs \ DOMAIN dbBugs # {}

\* the records of the run of p whose iteration met the outcome oc
WithOutcome(p, oc) == {id \in DOMAIN bl[p].outcome : bl[p].outcome[id] = oc}

\* C24 as written: after the persist loop every failed replacement of Test
\* or Job associations has left an error value that describes it in the error
\* list, no entry of the list is nil, and every record of the merged set had
\* its iteration
C24_Original ==
    \A p \in Loaders :
        Persisted(p) =>
            /\ Count(bl[p].errors, "error updating bug test assocations")
                 = Cardinality(WithOutcome(p, "testsFail"))
            /\ Count(bl[p].errors, "error updating bug job assocations")
                 = Cardinality(WithOutcome(p, "jobsFail"))
            /\ Count(bl[p].errors, "nil") = 0
            /\ Range(bl[p].upserts) = DOMAIN bl[p].allBugs

\* the run that refutes C24: the replacement of the Test associations of the
\* first ticket failed after its upsert, the entry appended for it is nil,
\* and the loop went on to upsert the second ticket
C24_Witness ==
    \E p \in Loaders :
        /\ bl[p].pc = "delete"
        /\ Len(bl[p].upserts) = 2
        /\ bl[p].outcome[bl[p].upserts[1]] = "testsFail"
        /\ bl[p].outcome[bl[p].upserts[2]] = "ok"
        /\ bl[p].errors = <<"nil">>
        /\ bl[p].upserts[1] \in DOMAIN dbBugs
        /\ bl[p].upserts[2] \in DOMAIN dbBugs \ DOMAIN bl[p].preBugs

\* the ticket is in the authoritative set of the finished run of p, its
\* upsert did not fail, and the store does not hold it
Missing(p, id) ==
    /\ bl[p].pc = "done"
    /\ id \in DOMAIN bl[p].allBugs
    /\ bl[p].outcome[id] # "createFails"
    /\ id \notin DOMAIN dbBugs

\* the run of p had the store to itself and no run followed it
Serialized(p) == ~bl[p].overlapped /\ bl[p].latest

----------------------------------------------------------------------------
(* Properties of the mapping builders *)

\* the external ID of the row is missing or is no numeral
BadID(row) == ~Atoi(row.JiraID).ok

\* the row has an ID that is present and no numeral, and the builder gets as
\* far as converting it: the test and job builders first drop a row without
\* a link name
ConversionFails(kind, row) ==
    /\ row.JiraID # ""
    /\ ~Atoi(row.JiraID).ok
    /\ (kind = "triage" \/ row.LinkName # "")

\* the map and the error list before and after row k of the call
Before(k) == mb.hist[k]
After(k) == mb.hist[k + 1]

NamesCachedTest(id, r) ==
    /\ Atoi(r.JiraID).ok
    /\ Atoi(r.JiraID).val = id
    /\ r.LinkName \in DOMAIN TestCache

\* the rows read so far that carry id and name a cached test, in row order
CachedTestRows(id) == SelectSeq(mb.rows, LAMBDA r : NamesCachedTest(id, r))

\* C22: in a call of getTestBugMappings the map holds a record for a numeric
\* ID exactly when a row read so far carries that ID and names a test of
\* TestCache; the record has the attributes of the first such row and its
\* Tests are the cache entries of those rows in row order; a row that names
\* a test the cache does not know changes neither the map nor the error list
C22_TestMappings ==
    mb.kind = "test" =>
        LET bugs == mb.hist[Len(mb.hist)].bugs
        IN  /\ DOMAIN bugs = {id \in BugIDs : CachedTestRows(id) # <<>>}
            /\ \A id \in DOMAIN bugs :
                  LET rows == CachedTestRows(id)
                  IN  /\ bugs[id].ID = id
                      /\ bugs[id].Key = rows[1].Key
                      /\ bugs[id].Tests = [k \in 1..Len(rows) |-> TestCache[rows[k].LinkName].Name]
                      /\ bugs[id].Jobs = <<>>
            /\ \A k \in 1..Len(mb.rows) :
                  (Atoi(mb.rows[k].JiraID).ok /\ mb.rows[k].LinkName \notin DOMAIN TestCache) =>
                      After(k) = Before(k)

\* two rows of one ticket name two cached tests: the record has the key of
\* the first row and both tests in row order
C22_Witness ==
    /\ mb.kind = "test"
    /\ mb.pc = "returned"
    /\ Len(mb.rows) = 2
    /\ mb.rows[1] = [JiraID |-> "1", Key |-> "K2", LinkName |-> "t2"]
    /\ mb.rows[2] = [JiraID |-> "1", Key |-> "K1", LinkName |-> "t1"]
    /\ mb.hist[3].bugs[1].Tests = <<"t2", "t1">>
    /\ mb.hist[3].bugs[1].Key = "K2"

----------------------------------------------------------------------------
(* Properties of refreshMaterializedViews *)

\* the refresh of view v is attempted: there is a database handle, and the
\* only-if-empty probe, when it runs, does not find rows
Attempted(v) ==
    /\ mv.dbc
    /\ ~(mv.refreshMatviewOnlyIfEmpty /\ mv.views[v].count = "positive")

\* view v fails its concurrent refresh and would succeed a plain one
NeedsFallback(v) == mv.views[v].conc = "fails" /\ mv.views[v].block = "ok"

\* the one plain refresh of v comes from the worker that took v and tried the
\* concurrent refresh, and the metric of v is observed once
FellBack(v) ==
    /\ Len(vlog[v].taken) = 1
    /\ vlog[v].conc = vlog[v].taken
    /\ vlog[v].block = vlog[v].taken
    /\ vlog[v].observed = 1
    /\ vlog[v].errors = 0

\* C5 as written: whenever refreshMaterializedViews has returned on a
\* database, every view whose concurrent refresh fails and whose plain refresh
\* succeeds got a plain refresh from the same worker and one observation of
\* its metric.  (A view that the only-if-empty probe skips gets neither.)
C5_Original ==
    (main.pc = "returned" /\ mv.dbc) =>
        \A v \in 1..NumViews : NeedsFallback(v) => FellBack(v)

\* C5: refreshMaterializedViews terminates, and when it has returned every
\* view whose refresh was attempted, whose concurrent refresh fails and whose
\* plain refresh succeeds got the plain refresh from the same worker, one
\* observation of its refresh metric and no error log
C5_Fallback ==
    /\ [](main.pc = "returned" =>
            \A v \in 1..NumViews : (Attempted(v) /\ NeedsFallback(v)) => FellBack(v))
    /\ <>(main.pc = "returned")

C5_Witness ==
    /\ main.pc = "returned"
    /\ \E v \in 1..NumViews : Attempted(v) /\ NeedsFallback(v) /\ FellBack(v)

\* a worker has taken view v and finished its loop iteration for it
Iterated(v) == vlog[v].finished = 1

\* C12: with the only-if-empty flag set, a view whose probe counts rows gets
\* the probe and no refresh statement, and a view whose probe counts zero rows
\* or fails gets the probe and then the concurrent refresh; with the flag
\* unset no view is probed and every view a worker has processed got the
\* concurrent refresh
C12_OnlyIfEmpty ==
    \A v \in 1..NumViews :
        /\ (mv.refreshMatviewOnlyIfEmpty /\ mv.views[v].count = "positive") =>
              /\ vlog[v].conc = <<>>
              /\ vlog[v].block = <<>>
              /\ (Iterated(v) => vlog[v].probes = 1 /\ vlog[v].skipped = 1)
        /\ (mv.refreshMatviewOnlyIfEmpty /\ mv.views[v].count \in {"zero", "error"}) =>
              (Iterated(v) => vlog[v].probes = 1 /\ vlog[v].conc = vlog[v].taken)
        /\ ~mv.refreshMatviewOnlyIfEmpty =>
              /\ vlog[v].probes = 0
              /\ (Iterated(v) => vlog[v].conc = vlog[v].taken)

C12_Witness ==
    /\ main.pc = "returned"
    /\ mv.refreshMatviewOnlyIfEmpty
    /\ \E v, u \in 1..NumViews :
          /\ mv.views[v].count = "positive" /\ Iterated(v) /\ vlog[v].conc = <<>>
          /\ mv.views[u].count = "error" /\ Iterated(u) /\ Len(vlog[u].conc) = 1

\* view v was taken by one worker and its loop iteration ran to the end
Processed(v) == Len(vlog[v].taken) = 1 /\ vlog[v].finished = 1

\* every worker of the pool has left its loop
WorkersExited ==
    /\ \A w \in 1..mv.pool : wk[w].pc = "exited"
    /\ wg = 0

\* C6 as written: whenever refreshMaterializedViews has returned, every view
\* of the list has been taken by a worker and processed, the channel is closed
\* and all workers have exited
C6_Original ==
    main.pc = "returned" =>
        /\ \A v \in 1..NumViews : Processed(v)
        /\ ch = "closed"
        /\ WorkersExited

\* C6: whenever refreshMaterializedViews has returned and it was given a
\* database handle, every view of the list has been taken by exactly one
\* worker and processed to the end, the channel is closed and all workers of
\* the pool have exited
C6_ReturnsAfterAll ==
    (main.pc = "returned" /\ mv.dbc) =>
        /\ \A v \in 1..NumViews : Processed(v)
        /\ ch = "closed"
        /\ WorkersExited

C6_Witness ==
    /\ main.pc = "returned"
    /\ mv.dbc
    /\ NumViews >= 2
    /\ \A v \in 1..NumViews : Processed(v)
    /\ WorkersExited

\* both refresh statements of view v fail
BothFail(v) == mv.views[v].conc = "fails" /\ mv.views[v].block = "fails"

\* an error-level message was logged for view v
ErrorLogged(v) == vlog[v].errors > 0

\* C21: an error is logged for a view only after both its concurrent and
\* its plain refresh were issued and failed, and then once; a view whose
\* concurrent refresh alone fails has no error logged.  The worker that
\* logged the error is back at its receive, and once an error is logged the
\* refresher goes on to return with every view of the list processed
C21_ErrorOnlyWhenBothFail ==
    /\ [](\A v \in 1..NumViews :
            /\ ErrorLogged(v) =>
                  /\ BothFail(v)
                  /\ vlog[v].errors = 1
                  /\ Len(vlog[v].conc) = 1 /\ vlog[v].block = vlog[v].conc
                  /\ vlog[v].finished = 1
                  /\ (wk[vlog[v].block[1]].matView = v =>
                          wk[vlog[v].block[1]].pc \in {"recv", "exited"})
            /\ (vlog[v].finished = 1 /\ Len(vlog[v].block) = 1) =>
                  (ErrorLogged(v) <=> BothFail(v)))
    /\ ((\E v \in 1..NumViews : ErrorLogged(v)) ~>
            (main.pc = "returned" /\ \A v \in 1..NumViews : Processed(v)))

\* every view of a list longer than the pool failed both refreshes and has
\* its one error, a worker that logged an error took a later view, and the
\* refresher returned
C21_Witness ==
    /\ main.pc = "returned"
    /\ NumViews > mv.pool
    /\ \A v \in 1..NumViews : BothFail(v) /\ vlog[v].errors = 1 /\ Processed(v)
    /\ \E v, u \in 1..NumViews : v < u /\ vlog[v].taken = vlog[u].taken

\* view v was received by one worker of the pool, once
TakenOnce(v) == Len(vlog[v].taken) = 1 /\ vlog[v].taken[1] \in 1..mv.pool

\* C27 as written: when refreshMaterializedViews has returned, every view of
\* the list was received by exactly one worker, once
C27_Original ==
    main.pc = "returned" => \A v \in 1..NumViews : TakenOnce(v)

\* C27: at every point of a call the views sent so far were each received
\* by exactly one worker of the pool, once, the others by none, and no view
\* was processed more than once; when a call that was given a database
\* handle has returned, every view of the list was received and processed
\* exactly once
C27_ExactlyOnce ==
    /\ \A v \in 1..NumViews :
          /\ (v < main.next => TakenOnce(v))
          /\ (v >= main.next => vlog[v].taken = <<>>)
          /\ vlog[v].finished <= Len(vlog[v].taken)
          /\ Len(vlog[v].conc) <= 1
    /\ (main.pc = "returned" /\ mv.dbc) =>
          \A v \in 1..NumViews : TakenOnce(v) /\ vlog[v].finished = 1

\* the list is longer than the pool: the call returned, two workers shared
\* the views, one of them received more than one, each view once
C27_Witness ==
    /\ main.pc = "returned"
    /\ NumViews > mv.pool
    /\ \A v \in 1..NumViews : TakenOnce(v) /\ vlog[v].finished = 1
    /\ \E v, u \in 1..NumViews : v # u /\ vlog[v].taken = vlog[u].taken
    /\ \E v, u \in 1..NumViews : vlog[v].taken # vlog[u].taken

\* the producer is through the list, the channel is closed, the workers of
\* the pool have left their loops and the wait group is at zero
Joined ==
    /\ main.next = NumViews + 1
    /\ ch = "closed"
    /\ WorkersExited

\* C28 as written: when refreshMaterializedViews has returned, all sends
\* have completed, the channel is closed, every worker has exited and
\* signalled the wait group
C28_Original == main.pc = "returned" => Joined

\* C28: every call of refreshMaterializedViews returns.  The channel is
\* closed in one step only, after the last send, and stays closed; the wait
\* group goes down by one exactly when one worker leaves its loop, and an
\* exited worker stays exited; when a call that was given a database handle
\* has returned, all sends have completed, the channel is closed and every
\* worker of the pool has exited
C28_Terminates ==
    /\ <>(main.pc = "returned")
    /\ [](main.pc = "returned" /\ mv.dbc => Joined)
    /\ [][/\ ch' # ch => (ch = "open" /\ ch' = "closed" /\ main.next = NumViews + 1)
          /\ \A w \in Workers : wk[w].pc = "exited" => wk'[w].pc = "exited"
          /\ wg' < wg <=>
                \E w \in Workers : wk[w].pc # "exited" /\ wk'[w].pc = "exited"
          /\ wg' < wg => wg' = wg - 1]_vars

\* a call on a list longer than the pool has returned after the join, and
\* the aggregate metric was observed
C28_Witness ==
    /\ main.pc = "returned"
    /\ mv.dbc
    /\ NumViews > mv.pool
    /\ Joined
    /\ main.allObserved = 1

\* C29: a view gets at most one concurrent and at most one plain refresh in
\* a call; the plain refresh is issued only when the concurrent refresh of
\* that view was issued before, by the same worker, and failed; a view whose
\* concurrent refresh succeeds gets no plain refresh
C29_BlockingAfterFailure ==
    /\ [](\A v \in 1..NumViews :
            /\ Len(vlog[v].conc) <= 1
            /\ Len(vlog[v].block) <= 1
            /\ vlog[v].block # <<>> =>
                  (vlog[v].conc = vlog[v].block /\ mv.views[v].conc = "fails")
            /\ mv.views[v].conc = "ok" => vlog[v].block = <<>>)
    /\ [][\A v \in 1..NumViews :
            vlog'[v].block # vlog[v].block =>
                /\ Len(vlog[v].conc) = 1
                /\ vlog'[v].conc = vlog[v].conc
                /\ mv.views[v].conc = "fails"]_vars

\* one view failed its concurrent refresh and got the plain one from the same
\* worker, another succeeded concurrently and got no plain refresh
C29_Witness ==
    /\ main.pc = "returned"
    /\ \E v, u \in 1..NumViews :
          /\ mv.views[v].conc = "fails"
          /\ Len(vlog[v].conc) = 1 /\ vlog[v].block = vlog[v].conc
          /\ mv.views[u].conc = "ok"
          /\ Len(vlog[u].conc) = 1 /\ vlog[u].block = <<>>
          /\ vlog[u].observed = 1

\* worker w holds a view: it received the name and has not finished with it
Busy(w) == wk[w].pc \in {"probe", "concurrent", "blocking"}

\* C18: the pool size is 2 or 3, and at no time are more views held by
\* workers (probed or refreshed) than the pool size, however long the list
C18_PoolBound ==
    /\ mv.pool \in {PoolSizeV1, PoolSizeV2}
    /\ Cardinality({w \in Workers : Busy(w)}) <= mv.pool

\* the list is longer than the pool, every worker of the pool refreshes a
\* view and a further view waits on the channel
C18_Witness ==
    /\ NumViews > mv.pool
    /\ main.pc = "send"
    /\ main.next <= NumViews
    /\ Cardinality({w \in Workers : wk[w].pc \in {"concurrent", "blocking"}}) = mv.pool

----------------------------------------------------------------------------
(* Properties of the job artifact query *)

\* getJobRunFiles has returned without an error
FilesListed == qs.listed /\ qs.pc \in {"scan", "returned"}

\* the listing yields more objects than the limit before any error
YieldsMoreThanLimit ==
    /\ aq.objects > MaxJobFilesToScan
    /\ (aq.errAt = 0 \/ aq.errAt > MaxJobFilesToScan + 1)

\* C7: when the listing yields more than maxJobFilesToScan objects,
\* getJobRunFiles returns exactly maxJobFilesToScan paths, the first ones in
\* listing order, with truncated true and no error
C7_Truncation ==
    (FilesListed /\ YieldsMoreThanLimit) =>
        /\ qs.files = [k \in 1..MaxJobFilesToScan |-> ObjectName(qs.jobRunPath, k)]
        /\ qs.truncated
        /\ qs.err = ""

C7_Witness ==
    /\ FilesListed
    /\ YieldsMoreThanLimit
    /\ qs.truncated
    /\ Len(qs.files) = MaxJobFilesToScan

\* the matcher ran on file i and returned matches together with an error
PartialMatch(i) ==
    /\ aq.ContentMatcher
    /\ qs.results[i].open
    /\ qs.results[i].res.matches # ""
    /\ qs.results[i].res.err # ""

\* C8: an artifact whose matcher returned matches together with an error
\* carries both: MatchedContent holds the matches and Error the error text
C8_PartialMatchKept ==
    \A i \in 1..Len(qs.artifacts) :
        PartialMatch(i) =>
            /\ qs.artifacts[i].MatchedContent = qs.results[i].res.matches
            /\ qs.artifacts[i].Error = qs.results[i].res.err

C8_Witness ==
    \E i \in 1..Len(qs.artifacts) :
        /\ PartialMatch(i)
        /\ qs.artifacts[i].MatchedContent = "partial"
        /\ qs.artifacts[i].Error = "scan failed"

\* NewReader failed on file i
OpenFailed(i) == aq.ContentMatcher /\ ~qs.results[i].open

\* C15: every scanned file yields exactly one artifact, the i-th artifact
\* for the i-th listed path, carrying the job run ID and the artifact URL of
\* that path; when the object cannot be opened the error is in the Error field
\* and nothing of the matcher is in the artifact; the query returns one
\* artifact per listed path whatever failed
C15_PerFileIsolation ==
    /\ Len(qs.artifacts) <= Len(qs.files)
    /\ \A i \in 1..Len(qs.artifacts) :
          /\ qs.artifacts[i].JobRunID = FormatInt(JobRunID)
          /\ qs.artifacts[i].ArtifactURL = ArtifactURL(qs.files[i])
          /\ OpenFailed(i) =>
                /\ qs.artifacts[i].Error = "open failed"
                /\ qs.artifacts[i].MatchedContent = ""
    /\ (qs.pc = "returned" /\ FilesListed) =>
          /\ qs.err = ""
          /\ Len(qs.artifacts) = Len(qs.files)

\* the first file could not be opened although the matcher would have found
\* something, and the second file was scanned after it
C15_Witness ==
    /\ qs.pc = "returned"
    /\ Len(qs.artifacts) >= 2
    /\ OpenFailed(1)
    /\ qs.results[1].res.matches # ""
    /\ qs.artifacts[1].Error = "open failed"
    /\ qs.artifacts[2].Error = ""
    /\ qs.artifacts[2].MatchedContent = "complete"

\* C16: with no content matcher every artifact has only the job run ID and
\* the artifact URL populated, and no object is opened
C16_NoMatcher ==
    ~aq.ContentMatcher =>
        /\ qs.opens = 0
        /\ qs.matcherCalls = 0
        /\ \A i \in 1..Len(qs.artifacts) :
              qs.artifacts[i] = [JobRunID |-> FormatInt(JobRunID),
                                 ArtifactURL |-> ArtifactURL(qs.files[i]),
                                 MatchedContent |-> "", Error |-> ""]

\* a file was scanned without a matcher, on an object that would not open
C16_Witness ==
    /\ ~aq.ContentMatcher
    /\ \E i \in 1..Len(qs.artifacts) :
          /\ ~qs.results[i].open
          /\ qs.artifacts[i].Error = ""
          /\ qs.artifacts[i].ArtifactURL = ArtifactURL(qs.files[i])

\* the URL holds "/" + GcsBucketRoot + "/": the bucket root is a piece with
\* a piece before it and a piece after it
HasMarker(url) == \E i \in 1..Len(url) : url[i] = GcsBucketRoot /\ 1 < i /\ i < Len(url)

\* the job run is not found, has no URL, or its URL lacks the marker
Unrecognized(url) == url = <<"missing">> \/ url = <<>> \/ ~HasMarker(url)

\* C17: when the job run is not found, or its URL is empty or lacks the
\* bucket root marker, queryJobArtifacts returns the error of getJobRun and
\* has listed no object and scanned no file
C17_NoMarkerFails ==
    (Unrecognized(aq.url) /\ qs.pc # "getJobRun") =>
        /\ qs.pc = "returned"
        /\ qs.err \in {"record not found", "has no URL", "does not include bucket root"}
        /\ qs.calls = 0
        /\ qs.files = <<>>
        /\ qs.artifacts = <<>>
        /\ qs.opens = 0

\* the URL names the bucket root but not as "/root/", and the query failed
C17_Witness ==
    /\ GcsBucketRoot \in Range(aq.url)
    /\ ~HasMarker(aq.url)
    /\ aq.objects > 0
    /\ qs.pc = "returned"
    /\ qs.err = "does not include bucket root"

\* C20 as written: once the request context is cancelled the listing yields
\* no further object and no further object is read
C20_Original ==
    qs.ctxDone =>
        /\ Len(qs.files) = qs.atCancel.files
        /\ qs.matcherCalls = qs.atCancel.matcherCalls

\* the request was cancelled during the listing; the listing went on to its
\* end, objects were listed and read after the cancellation, and the query
\* returned without an error
C20_Witness ==
    /\ qs.ctxDone
    /\ qs.pc = "returned"
    /\ qs.err = ""
    /\ qs.listed
    /\ Len(qs.files) > qs.atCancel.files
    /\ qs.matcherCalls > qs.atCancel.matcherCalls

\* C30: when getJobRunFiles has returned without an error, truncated is true
\* exactly when the listing holds more than maxJobFilesToScan objects, and
\* the paths are the first min(n, maxJobFilesToScan) object names in listing
\* order
C30_TruncatedIff ==
    FilesListed =>
        LET n == IF aq.objects > MaxJobFilesToScan THEN MaxJobFilesToScan ELSE aq.objects
        IN  /\ qs.truncated <=> aq.objects > MaxJobFilesToScan
            /\ qs.files = [k \in 1..n |-> ObjectName(qs.jobRunPath, k)]
            /\ qs.err = ""

\* a listing of exactly maxJobFilesToScan objects: all of them are returned
\* and truncated is false
C30_Witness ==
    /\ FilesListed
    /\ aq.objects = MaxJobFilesToScan
    /\ Len(qs.files) = MaxJobFilesToScan
    /\ ~qs.truncated

====
